---- MODULE Spec2Model ----
(***************************************************************************)
(* RequestManager of astrbot_plugin_apis (src/core/request.py): the       *)
(* fallback fetch `request`, the refiner `get_data`, the site round-robin *)
(* prober `batch_test_apis` and `terminate`.                              *)
(*                                                                         *)
(* Strings are sequences of tokens.  A URL is <<scheme, host, path>>; a   *)
(* header value is a sequence of case-carrying tokens; a text body is a   *)
(* sequence of text elements.                                              *)
(***************************************************************************)
EXTENDS Integers, Sequences, FiniteSets, TLC

\* ------------------------------------------------------------------ bounds
\* longest URL list handed to request / get_data
MaxUrls == 2
\* most URLs the registry holds, over all its ApiRecords
MaxEntries == 3

\* ------------------------------------------------------------- URL strings
HTTP == "http://"
HTTPS == "https://"

U1 == <<"http://", "a.com", "/1">>
U2 == <<"https://", "b.com", "/2">>
U3 == <<"ftp://", "b.com", "/3">>
U4 == <<"http://", "a.com", "/4">>

UrlPool == {U1, U2, U3}

\* str.startswith(prefix), prefix one token
StartsWith(s, prefix) == Len(s) > 0 /\ s[1] = prefix

\* str.replace(old, new): every occurrence, not only a leading one
Replace(s, old, new) == [i \in DOMAIN s |-> IF s[i] = old THEN new ELSE s[i]]

\* APIManager.extract_base_url: scheme + host of the URL
extract_base_url(url) == SubSeq(url, 1, 2)

\* ------------------------------------------------------------ Python values
None == [t |-> "None"]
Str(s) == [t |-> "str", s |-> s]
Bytes(b) == [t |-> "bytes", b |-> b]
Dict(d) == [t |-> "dict", d |-> d]
IntV(n) == [t |-> "int", n |-> n]

IsStr(v) == v.t = "str"
IsBytes(v) == v.t = "bytes"
IsDict(v) == v.t = "dict"

\* ------------------------------------------------------------ api_key_dict
NoKey == "<None>"

KeyTables ==
  { (<<HTTPS, "a.com">> :> "K1") @@ (<<HTTP, "b.com">> :> "K3"),
    (<<HTTP, "a.com">> :> "K1") @@ (<<HTTPS, "a.com">> :> "K2") }

\* lines 64-72 only: the https:// to http:// branch of 73-76 left out
MatchApiKeyOneWay(api_key_dict, base_url) ==
  IF base_url \in DOMAIN api_key_dict THEN api_key_dict[base_url]
  ELSE IF StartsWith(base_url, HTTP)
       THEN LET https_url == Replace(base_url, HTTP, HTTPS)
            IN IF https_url \in DOMAIN api_key_dict THEN api_key_dict[https_url] ELSE NoKey
       ELSE NoKey

\* lines 64-76: the key configured for base_url, else for its scheme-flipped twin
MatchApiKey(api_key_dict, base_url) ==
  IF base_url \in DOMAIN api_key_dict THEN api_key_dict[base_url]
  ELSE IF StartsWith(base_url, HTTP)
       THEN LET https_url == Replace(base_url, HTTP, HTTPS)
            IN IF https_url \in DOMAIN api_key_dict THEN api_key_dict[https_url] ELSE NoKey
       ELSE IF StartsWith(base_url, HTTPS)
       THEN LET http_url == Replace(base_url, HTTPS, HTTP)
            IN IF http_url \in DOMAIN api_key_dict THEN api_key_dict[http_url] ELSE NoKey
       ELSE NoKey

\* ------------------------------------------------------------------ params
\* the caller's params: None or a dict (a function from names to values)
NoParams == [none |-> TRUE, d |-> <<>>]
ParamsDict(d) == [none |-> FALSE, d |-> d]

ParamChoices ==
  { NoParams,
    ParamsDict("q" :> "v"),
    ParamsDict(("ckey" :> "mine") @@ ("q" :> "v")) }

\* Python truthiness of params (None and {} are falsy), of api_key (None, "")
ParamsTruthy(params) == ~params.none /\ DOMAIN params.d # {}
KeyTruthy(api_key) == api_key # NoKey /\ api_key # ""

\* lines 60-80 without the test of line 79 for a ckey already given
BuildParamsOverwrite(api_key_dict, params, url) ==
  LET request_params == IF ParamsTruthy(params) THEN params.d ELSE <<>>
      api_key == MatchApiKey(api_key_dict, extract_base_url(url))
  IN IF KeyTruthy(api_key)
     THEN ("ckey" :> api_key) @@ request_params
     ELSE request_params

\* lines 60-80: request_params sent with the GET for url
BuildParams(api_key_dict, params, url) ==
  LET request_params == IF ParamsTruthy(params) THEN params.d ELSE <<>>
      api_key == MatchApiKey(api_key_dict, extract_base_url(url))
  IN IF KeyTruthy(api_key) /\ "ckey" \notin DOMAIN request_params
     THEN request_params @@ ("ckey" :> api_key)
     ELSE request_params

\* line 60 as `request_params = params or {}`: the dict sent is the caller's own
PrepareParamsAliased(key_dict, params, url) ==
  LET request_params == BuildParams(key_dict, params, url)
  IN [request_params |-> request_params,
      params |-> IF ParamsTruthy(params) THEN ParamsDict(request_params) ELSE params]

\* lines 60-80 on the heap: the dict sent with the GET, a copy, and the caller's
\* mapping as the lines leave it
PrepareParams(key_dict, params, url) ==
  [request_params |-> BuildParams(key_dict, params, url), params |-> params]

\* ---------------------------------------------------------------- str data
\* elements of a decoded text
Ws == [k |-> "ws"]
Word(w) == [k |-> "word", w |-> w]
UrlIn(u) == [k |-> "url", u |-> u]
Doctype == [k |-> "doctype"]
Tag(g) == [k |-> "tag", g |-> g]

RECURSIVE lstrip(_)
lstrip(s) == IF s # <<>> /\ Head(s) = Ws THEN lstrip(Tail(s)) ELSE s

RECURSIVE rstrip(_)
rstrip(s) == IF s # <<>> /\ s[Len(s)] = Ws THEN rstrip(SubSeq(s, 1, Len(s) - 1)) ELSE s

\* str.strip()
strip(s) == rstrip(lstrip(s))

IsUrlIn(e) == e.k = "url"
UrlOf(e) == e.u

\* utils.extract_urls: the URLs found in the text, in order; empty if none
extract_urls(data) ==
  LET found == SelectSeq(data.s, IsUrlIn)
  IN [i \in DOMAIN found |-> UrlOf(found[i])]

\* data.strip().startswith("<!DOCTYPE html>")
IsHtml(data) == LET s == strip(data.s) IN s # <<>> /\ s[1] = Doctype

IsVisible(e) == e.k \in {"word", "url"}

\* BeautifulSoup(data, "html.parser").get_text(strip=True)
get_text(data) == Str(SelectSeq(data.s, IsVisible))

\* utils.get_nested_value(data, target): the value stored under the path
get_nested_value(data, target) == data.d[target]

\* utils.dict_to_string: a dict rendered as text
dict_to_string(nested_value) == Str(<<Word("k:v")>>)

\* --------------------------------------------------------------- responses
ParseError == [t |-> "error"]

\* a response body: what resp.json(), resp.text() and resp.read() make of it
Body(name, json, text) == [name |-> name, json |-> json, text |-> text]

Bodies ==
  { Body("obj_dict", Dict("a" :> Dict("b" :> IntV(1))), <<Word("{a:{b:1}}")>>),
    Body("obj_int", Dict("a" :> IntV(42)), <<Word("{a:42}")>>),
    Body("obj_url", Dict("a" :> Str(<<UrlIn(U3)>>)), <<Word("{a:"), UrlIn(U3), Word("}")>>),
    Body("json_url", Str(<<UrlIn(U2)>>), <<Word("quote"), UrlIn(U2), Word("quote")>>),
    Body("url", ParseError, <<Ws, UrlIn(U1), Ws>>),
    Body("html", ParseError, <<Ws, Doctype, Tag("p"), Word("hi"), Tag("/p")>>),
    Body("png", ParseError, <<Word("PNG")>>) }

BodyNamed(name) == CHOOSE b \in Bodies : b.name = name

ContentTypes ==
  { <<"APPLICATION/JSON", "; charset=utf-8">>,
    <<"TEXT/", "plain">>,
    <<"text/", "html; x=", "Application/Json">>,
    <<"image/png">> }

HeaderSets == { <<>> } \cup { ("Content-Type" :> ct) : ct \in ContentTypes }

\* what the upstream hosts serve: structured and text bodies under every header
\* set, an image under every header set
Served ==
  { <<h, b>> \in HeaderSets \X Bodies :
      \/ b.name \in {"png", "url"}
      \/ /\ h # <<>>
         /\ h["Content-Type"] # <<"image/png">> }

NoBody == Body("", ParseError, <<>>)
ConnFail == [conn |-> FALSE, status |-> 0, headers |-> <<>>, body |-> NoBody]
Status(n) == [conn |-> TRUE, status |-> n, headers |-> <<>>, body |-> NoBody]
Ok(headers, body) == [conn |-> TRUE, status |-> 200, headers |-> headers, body |-> body]

Responses ==
  {ConnFail, Status(304), Status(404)} \cup { Ok(hb[1], hb[2]) : hb \in Served }

\* str.lower() of one token
LowerTok(tok) ==
  CASE tok = "APPLICATION/JSON" -> "application/json"
    [] tok = "Application/Json" -> "application/json"
    [] tok = "TEXT/" -> "text/"
    [] OTHER -> tok

\* str.lower()
lower(s) == [i \in DOMAIN s |-> LowerTok(s[i])]

\* sub in s
Contains(s, sub) == \E i \in DOMAIN s : s[i] = sub

\* resp.headers.get(name, default)
HeadersGet(headers, name, default) ==
  IF name \in DOMAIN headers THEN headers[name] ELSE default

\* an attempt ends by raising e or by returning val (of the logged variant)
Exc(type, at) == [kind |-> "raise", type |-> type, at |-> at]
Ret(val, variant, at) == [kind |-> "return", val |-> val, variant |-> variant, at |-> at]

\* lines 92-107 without the .lower() of line 92
ClassifyCaseSensitive(resp, at) ==
  LET ct == HeadersGet(resp.headers, "Content-Type", <<>>)
  IN IF Contains(ct, "application/json")
     THEN IF resp.body.json = ParseError THEN Exc("JSONDecodeError", at)
          ELSE Ret(resp.body.json, "JSON", at)
     ELSE IF Contains(ct, "text/")
     THEN Ret(Str(strip(resp.body.text)), "TEXT", at)
     ELSE Ret(Bytes(resp.body.name), "BINARY", at)

\* lines 92-107: the body of a 2xx response, by its declared content type
Classify(resp, at) ==
  LET ct == lower(HeadersGet(resp.headers, "Content-Type", <<>>))
  IN IF Contains(ct, "application/json")
     THEN IF resp.body.json = ParseError THEN Exc("JSONDecodeError", at)
          ELSE Ret(resp.body.json, "JSON", at)
     ELSE IF Contains(ct, "text/")
     THEN Ret(Str(strip(resp.body.text)), "TEXT", at)
     ELSE Ret(Bytes(resp.body.name), "BINARY", at)

\* lines 86-107 with the test of lines 90-91 after the body has been read
AttemptOutcomeReadsBody(resp, test_mode, at) ==
  IF ~resp.conn THEN Exc("ClientConnectionError", at)
  ELSE IF resp.status >= 400 THEN Exc("ClientResponseError", at)
  ELSE LET out == Classify(resp, at)
       IN IF test_mode /\ out.kind = "return" THEN Ret(None, "ABSENT", at) ELSE out

\* the body of resp cannot be read as its Content-Type declares
Unreadable(resp) == resp.conn /\ Classify(resp, 0).kind = "raise"

\* lines 86-107: how the attempt on urls[at] ends when resp comes back
AttemptOutcome(resp, test_mode, at) ==
  IF ~resp.conn THEN Exc("ClientConnectionError", at)
  ELSE IF resp.status >= 400 THEN Exc("ClientResponseError", at)
  ELSE IF test_mode THEN Ret(None, "ABSENT", at)
  ELSE Classify(resp, at)

\* ------------------------------------------------------------------- state
VARIABLES
  session_closed,  \* self.session has been closed (terminate)
  api_key_dict,    \* self.api_key_dict
  call,            \* the running request / get_data call: arguments, locals, position
  log,             \* the attempts of the call that have ended, in the order they ended
  apis,            \* self.api.apis, the registry, in its key order
  probe,           \* the running batch_test_apis pass: locals and position
  rounds           \* the batches of the pass that have been gathered, with their results

vars == <<session_closed, api_key_dict, call, log, apis, probe, rounds>>
fetchVars == <<call, log>>
probeVars == <<apis, probe, rounds>>

NoExc == [kind |-> "none"]
NoResult == [kind |-> "none"]

ApiTypes == {"text", "image"}
Targets == {"", "a"}

IdleCall ==
  [op |-> "none", pc |-> "idle", stage |-> 0,
   urls |-> <<>>, params |-> NoParams, test_mode |-> FALSE,
   api_type |-> "", target |-> "",
   given |-> NoParams, closed_at_call |-> FALSE,
   idx |-> 0, last_exc |-> NoExc, request_params |-> <<>>, inflight |-> {},
   inflight_url |-> <<>>,
   data |-> NoResult, new_urls |-> <<>>,
   downloaded |-> NoResult, result |-> NoResult]

\* the arguments of the request call that c is in: line 125 (stage 1, or a
\* direct call) and line 130 (stage 2)
Urls(c) == IF c.stage = 2 THEN c.new_urls ELSE c.urls
Params(c) == IF c.stage = 2 THEN NoParams ELSE c.params
TestMode(c) == IF c.stage = 2 THEN FALSE ELSE c.test_mode

\* what the log keeps of an ended attempt (lines 83-84, 97, 103, 106, 112)
Attempt(c, url, request_params, status, unreadable, headers, out) ==
  [stage |-> c.stage, at |-> out.at, url |-> url, params |-> Params(c),
   status |-> status, unreadable |-> unreadable,
   api_key |-> MatchApiKey(api_key_dict, extract_base_url(url)),
   request_params |-> request_params, headers |-> headers, out |-> out]

Done(c, lg, result) ==
  [call |-> [c EXCEPT !.pc = "done", !.inflight = {}, !.result = result], log |-> lg]

\* lines 136-153 with line 151 filling byte for a value that is not bytes
RefineKeepBoth(data, target) ==
  LET d1 == IF IsDict(data) /\ target # ""
            THEN LET nested_value == get_nested_value(data, target)
                 IN IF IsDict(nested_value) THEN dict_to_string(nested_value)
                    ELSE nested_value
            ELSE data
      d2 == IF IsStr(d1) /\ IsHtml(d1) THEN get_text(d1) ELSE d1
      text == IF IsStr(d2) THEN d2 ELSE None
      byte == IF IsBytes(d2) THEN d2 ELSE Bytes("text")
  IN [kind |-> "return", text |-> text, byte |-> byte]

\* lines 136-153: nested extraction, HTML reduction, the (text, byte) pair
Refine(data, target) ==
  LET d1 == IF IsDict(data) /\ target # ""
            THEN LET nested_value == get_nested_value(data, target)
                 IN IF IsDict(nested_value) THEN dict_to_string(nested_value)
                    ELSE nested_value
            ELSE data
      d2 == IF IsStr(d1) /\ IsHtml(d1) THEN get_text(d1) ELSE d1
      text == IF IsStr(d2) THEN d2 ELSE None
      byte == IF IsBytes(d2) THEN d2 ELSE None
  IN [kind |-> "return", text |-> text, byte |-> byte]

\* line 134
DownloadFailed(new_urls) == [kind |-> "raise", type |-> "RuntimeError", urls |-> new_urls]

\* lines 114-115 raising the first recorded error instead of the last
ExitLoopFirstExc(lg, stage, last_exc) ==
  LET mine == SelectSeq(lg, LAMBDA a : a.stage = stage)
  IN IF last_exc # NoExc THEN mine[1].out ELSE Ret(None, "ABSENT", 0)

\* lines 114-115 raising when the loop ran over no URL at all
ExitLoopRaisesOnEmpty(lg, stage, last_exc) ==
  IF last_exc # NoExc THEN last_exc ELSE Exc("ValueError", 0)

\* lines 114-115 left out: the recorded error is dropped
ExitLoopDropsError(lg, stage, last_exc) == Ret(None, "ABSENT", 0)

\* lines 114-115: after the loop
ExitLoop(lg, stage, last_exc) ==
  IF last_exc # NoExc THEN last_exc ELSE Ret(None, "ABSENT", 0)

\* line 86 on a closed session: session.get raises at once
SessionClosed(at) == Exc("RuntimeError: Session is closed", at)

RECURSIVE RunRequest(_, _, _, _, _)
RECURSIVE FinishRequest(_, _, _, _)

\* lines 127-134 of get_data without the `api_type != "text"` of line 128
AfterFirstAnyType(c, lg, out, closed) ==
  IF out.kind = "raise" THEN Done(c, lg, out)
  ELSE LET data == out.val
           new_urls == IF IsStr(data) THEN extract_urls(data) ELSE <<>>
       IN IF new_urls # <<>>
          THEN RunRequest([c EXCEPT !.stage = 2, !.data = out, !.new_urls = new_urls],
                          lg, 1, NoExc, closed)
          ELSE Done([c EXCEPT !.data = out], lg, Refine(data, c.target))

\* lines 127-134 of get_data, after the first request returned or raised
AfterFirst(c, lg, out, closed) ==
  IF out.kind = "raise" THEN Done(c, lg, out)
  ELSE LET data == out.val
           new_urls == IF IsStr(data) /\ c.api_type # "text"
                       THEN extract_urls(data) ELSE <<>>
       IN IF new_urls # <<>>
          THEN RunRequest([c EXCEPT !.stage = 2, !.data = out, !.new_urls = new_urls],
                          lg, 1, NoExc, closed)
          ELSE Done([c EXCEPT !.data = out], lg, Refine(data, c.target))

\* lines 130-134 of get_data, after the second request returned or raised
AfterSecond(c, lg, out, closed) ==
  IF out.kind = "raise" THEN Done([c EXCEPT !.downloaded = out], lg, out)
  ELSE IF IsBytes(out.val)
  THEN Done([c EXCEPT !.downloaded = out], lg, Refine(out.val, c.target))
  ELSE Done([c EXCEPT !.downloaded = out], lg, DownloadFailed(c.new_urls))

\* the request call of c has returned or raised out: on to its caller
FinishRequest(c, lg, out, closed) ==
  IF c.op = "request" THEN Done(c, lg, out)
  ELSE IF c.stage = 1 THEN AfterFirst(c, lg, out, closed)
  ELSE AfterSecond(c, lg, out, closed)

\* lines 57-88 with urls[0] in place of the loop variable
RunRequestFirstUrl(c, lg, i, last_exc, closed) ==
  IF i > Len(Urls(c)) THEN FinishRequest(c, lg, ExitLoop(lg, c.stage, last_exc), closed)
  ELSE LET url == Urls(c)[1]
           prepared == PrepareParams(api_key_dict, Params(c), url)
           request_params == prepared.request_params
           c1 == IF c.stage = 2 THEN c ELSE [c EXCEPT !.params = prepared.params]
       IN IF closed
          THEN RunRequest(c1, Append(lg, Attempt(c, url, request_params, 0, FALSE, <<>>,
                                                 SessionClosed(i))),
                          i + 1, SessionClosed(i), closed)
          ELSE [call |-> [c1 EXCEPT !.pc = "get", !.idx = i, !.last_exc = last_exc,
                                    !.request_params = request_params,
                                    !.inflight = {i}, !.inflight_url = url],
                log |-> lg]

\* lines 57-88 and 114-115: the loop of request from position i on, up to the
\* next GET that is awaited or to the end of the call
RunRequest(c, lg, i, last_exc, closed) ==
  IF i > Len(Urls(c)) THEN FinishRequest(c, lg, ExitLoop(lg, c.stage, last_exc), closed)
  ELSE LET url == Urls(c)[i]
           prepared == PrepareParams(api_key_dict, Params(c), url)
           request_params == prepared.request_params
           c1 == IF c.stage = 2 THEN c ELSE [c EXCEPT !.params = prepared.params]
       IN IF closed
          THEN RunRequest(c1, Append(lg, Attempt(c, url, request_params, 0, FALSE, <<>>,
                                                 SessionClosed(i))),
                          i + 1, SessionClosed(i), closed)
          ELSE [call |-> [c1 EXCEPT !.pc = "get", !.idx = i, !.last_exc = last_exc,
                                    !.request_params = request_params,
                                    !.inflight = {i}, !.inflight_url = url],
                log |-> lg]

\* lines 89-113 with the loop going on after an attempt has returned
AfterAttemptKeepGoing(c, lg, resp, closed) ==
  LET out == AttemptOutcome(resp, TestMode(c), c.idx)
      lg2 == Append(lg, Attempt(c, c.inflight_url, c.request_params, resp.status,
                                Unreadable(resp),
                                IF out.kind = "return" /\ ~TestMode(c)
                                THEN resp.headers ELSE <<>>, out))
      c2 == [c EXCEPT !.inflight = {}]
  IN IF out.kind = "return" /\ c.idx = Len(Urls(c)) THEN FinishRequest(c2, lg2, out, closed)
     ELSE RunRequest(c2, lg2, c.idx + 1, IF out.kind = "raise" THEN out ELSE c.last_exc, closed)

\* lines 89-113: the awaited GET of urls[idx] has ended with resp
AfterAttempt(c, lg, resp, closed) ==
  LET out == AttemptOutcome(resp, TestMode(c), c.idx)
      lg2 == Append(lg, Attempt(c, c.inflight_url, c.request_params, resp.status,
                                Unreadable(resp),
                                IF out.kind = "return" /\ ~TestMode(c)
                                THEN resp.headers ELSE <<>>, out))
      c2 == [c EXCEPT !.inflight = {}]
  IN IF out.kind = "return" THEN FinishRequest(c2, lg2, out, closed)
     ELSE RunRequest(c2, lg2, c.idx + 1, out, closed)

\* --------------------------------------------------------------- sequences
RECURSIVE SeqsUpTo(_, _)
SeqsUpTo(S, n) ==
  IF n = 0 THEN { <<>> }
  ELSE LET shorter == SeqsUpTo(S, n - 1)
       IN shorter \cup { Append(q, x) : q \in shorter, x \in S }

\* the URL lists handed to request and get_data: alternatives, none listed twice
UrlLists ==
  { q \in SeqsUpTo(UrlPool, MaxUrls) : \A i, j \in DOMAIN q : i # j => q[i] # q[j] }

\* ------------------------------------------------------------------ prober
ProbePool == {U1, U4, U2}
ProbeNames == <<"x", "y">>

\* api_data["url"]: one URL string or a list of them
UrlStr(u) == [isstr |-> TRUE, s |-> u, l |-> <<>>]
UrlList(l) == [isstr |-> FALSE, s |-> <<>>, l |-> l]

UrlFields(l) == {UrlList(l)} \cup (IF Len(l) = 1 THEN {UrlStr(l[1])} ELSE {})

\* api_data.get("params", {})
RegistryParams(name) ==
  IF name = "x" THEN ParamsDict("q" :> "v") ELSE ParamsDict(<<>>)

ApiRecord(name, url) == [name |-> name, url |-> url, params |-> RegistryParams(name)]

Registries ==
  { <<ApiRecord(ProbeNames[1], ux), ApiRecord(ProbeNames[2], uy)>> :
      ux \in UNION { UrlFields(l) : l \in SeqsUpTo(ProbePool, MaxEntries) },
      uy \in UNION { UrlFields(l) : l \in SeqsUpTo(ProbePool, MaxEntries) } }

RegistrySize(registry) ==
  LET n(i) == IF registry[i].url.isstr THEN 1 ELSE Len(registry[i].url.l)
  IN n(1) + n(2)

Pending == [kind |-> "pending"]

IdleProbe ==
  [pc |-> "idle", site_order |-> <<>>, site_to_entries |-> <<>>,
   api_succeeded |-> <<>>, batch |-> <<>>, tasks |-> <<>>, result |-> NoResult,
   completed |-> <<>>, closed_at_call |-> FALSE]

\* line 164
UrlsOfApi(api_data) == IF api_data.url.isstr THEN <<api_data.url.s>> ELSE api_data.url.l

\* lines 165-173: the entries of one ApiRecord
EntriesOfApi(api_data) ==
  LET urls == UrlsOfApi(api_data)
  IN [i \in DOMAIN urls |->
        [api_name |-> api_data.name, url |-> urls[i], params |-> api_data.params,
         eid |-> <<api_data.name, i>>]]

\* lines 162-173: every entry, in the order the two loops append them
RECURSIVE AllEntries(_)
AllEntries(registry) ==
  IF registry = <<>> THEN <<>>
  ELSE EntriesOfApi(Head(registry)) \o AllEntries(Tail(registry))

SiteOf(entry) == extract_base_url(entry.url)

\* the keys of site_to_entries in the order defaultdict creates them
RECURSIVE SiteOrder(_, _)
SiteOrder(entries, seen) ==
  IF entries = <<>> THEN seen
  ELSE LET site == SiteOf(Head(entries))
       IN SiteOrder(Tail(entries),
                    IF \E i \in DOMAIN seen : seen[i] = site THEN seen
                    ELSE Append(seen, site))

\* lines 161-173
Flatten(registry) ==
  LET entries == AllEntries(registry)
      order == SiteOrder(entries, <<>>)
  IN [site_order |-> order,
      site_to_entries |->
        [site \in {order[i] : i \in DOMAIN order} |->
           SelectSeq(entries, LAMBDA e : SiteOf(e) = site)]]

\* line 179
AnyEntries(site_to_entries) ==
  \E site \in DOMAIN site_to_entries : site_to_entries[site] # <<>>

\* lines 180-184 reading entries[0] without popping it
BuildBatchKeepsEntries(site_order, site_to_entries) ==
  LET live == SelectSeq(site_order, LAMBDA site : site_to_entries[site] # <<>>)
  IN [batch |-> [i \in DOMAIN live |-> Head(site_to_entries[live[i]])],
      site_to_entries |-> site_to_entries]

\* lines 180-184 with pop() in place of pop(0)
BuildBatchPopLast(site_order, site_to_entries) ==
  LET live == SelectSeq(site_order, LAMBDA site : site_to_entries[site] # <<>>)
      last(q) == q[Len(q)]
      front(q) == SubSeq(q, 1, Len(q) - 1)
  IN [batch |-> [i \in DOMAIN live |-> last(site_to_entries[live[i]])],
      site_to_entries |->
        [site \in DOMAIN site_to_entries |->
           IF site_to_entries[site] # <<>> THEN front(site_to_entries[site]) ELSE <<>>]]

\* lines 180-184 popping until the site is empty: every entry in one batch
BuildBatchWholeSite(site_order, site_to_entries) ==
  LET RECURSIVE All(_)
      All(i) == IF i > Len(site_order) THEN <<>>
                ELSE site_to_entries[site_order[i]] \o All(i + 1)
  IN [batch |-> All(1),
      site_to_entries |-> [site \in DOMAIN site_to_entries |-> <<>>]]

\* lines 180-184: one entry popped from the front of every non-empty site
BuildBatch(site_order, site_to_entries) ==
  LET live == SelectSeq(site_order, LAMBDA site : site_to_entries[site] # <<>>)
  IN [batch |-> [i \in DOMAIN live |-> Head(site_to_entries[live[i]])],
      site_to_entries |->
        [site \in DOMAIN site_to_entries |->
           IF site_to_entries[site] # <<>> THEN Tail(site_to_entries[site]) ELSE <<>>]]

\* line 190: the task of one entry, request([url], params, True), at its GET,
\* and the params mapping of the entry's api as the task leaves it
Task(entry, params, closed) ==
  LET prepared == PrepareParams(api_key_dict, params, entry.url)
  IN [task |-> [request_params |-> prepared.request_params,
                closed |-> closed, out |-> Pending],
      params |-> prepared.params]

\* entry["params"] is the api's own mapping: line 170 stores a reference
ApiPos(registry, name) == CHOOSE k \in DOMAIN registry : registry[k].name = name

\* lines 190-191: gather starts the tasks in batch order, each one running
\* up to its GET before the next starts
RECURSIVE StartTasks(_, _, _, _)
StartTasks(batch, registry, tasks, closed) ==
  IF Len(tasks) = Len(batch) THEN [tasks |-> tasks, registry |-> registry]
  ELSE LET entry == batch[Len(tasks) + 1]
           k == ApiPos(registry, entry.api_name)
           t == Task(entry, registry[k].params, closed)
       IN StartTasks(batch, [registry EXCEPT ![k].params = t.params],
                     Append(tasks, t.task), closed)

\* lines 86-91 and 108-115 for the one URL of a task: what the task ends with
TaskOutcome(task, resp) ==
  LET out == IF task.closed THEN SessionClosed(1) ELSE AttemptOutcome(resp, TRUE, 1)
  IN IF out.kind = "raise" THEN ExitLoop(<<>>, 1, out) ELSE out

\* lines 194-198 with `api_succeeded[name] = not isinstance(res, Exception)`:
\* the last result of an api in the batch overwrites what was known
AggregateOverwrite(api_succeeded, batch, results) ==
  [name \in DOMAIN api_succeeded |->
     LET mine == { i \in DOMAIN batch : batch[i].api_name = name }
     IN IF mine = {} THEN api_succeeded[name]
        ELSE LET last == CHOOSE i \in mine : \A j \in mine : j <= i
             IN results[last].kind # "raise"]

\* lines 194-198
Aggregate(api_succeeded, batch, results) ==
  [name \in DOMAIN api_succeeded |->
     \/ api_succeeded[name]
     \/ \E i \in DOMAIN batch :
          batch[i].api_name = name /\ results[i].kind # "raise"]

\* lines 201-203 with line 203 listing every key, its filter left out
SummaryDisabledAll(registry, api_succeeded) ==
  LET keys == [i \in DOMAIN registry |-> registry[i].name]
  IN [kind |-> "return",
      abled |-> SelectSeq(keys, LAMBDA k : api_succeeded[k]),
      disabled |-> keys]

\* lines 201-203
Summary(registry, api_succeeded) ==
  LET keys == [i \in DOMAIN registry |-> registry[i].name]
  IN [kind |-> "return",
      abled |-> SelectSeq(keys, LAMBDA k : api_succeeded[k]),
      disabled |-> SelectSeq(keys, LAMBDA k : ~api_succeeded[k])]

\* lines 179-191 and 200-203: the while loop up to the next gather, or the end
ProbeLoop(p, registry, closed) ==
  IF AnyEntries(p.site_to_entries)
  THEN LET b == BuildBatch(p.site_order, p.site_to_entries)
           started == StartTasks(b.batch, registry, <<>>, closed)
       IN [probe |-> [p EXCEPT !.pc = "gather",
                               !.site_to_entries = b.site_to_entries,
                               !.batch = b.batch, !.tasks = started.tasks],
           apis |-> started.registry]
  ELSE [probe |-> [p EXCEPT !.pc = "done", !.batch = <<>>, !.tasks = <<>>,
                            !.result = Summary(registry, p.api_succeeded)],
        apis |-> registry]

\* line 191 without return_exceptions=True: gather raises the first exception
AfterGatherPropagates(p, registry, closed) ==
  LET results == [i \in DOMAIN p.tasks |-> p.tasks[i].out]
      p1 == [p EXCEPT !.api_succeeded = Aggregate(p.api_succeeded, p.batch, results)]
  IN IF \E i \in DOMAIN results : results[i].kind = "raise"
     THEN LET first == CHOOSE i \in DOMAIN results :
                         /\ results[i].kind = "raise"
                         /\ \A j \in 1..(i - 1) : results[j].kind # "raise"
          IN [probe |-> [p EXCEPT !.pc = "done", !.batch = <<>>, !.tasks = <<>>,
                                  !.result = results[first]],
              apis |-> registry]
     ELSE ProbeLoop(p1, registry, closed)

\* lines 191-198, then the loop again: every result of the batch is a value,
\* an exception among them, and none is raised here
AfterGather(p, registry, closed) ==
  LET results == [i \in DOMAIN p.tasks |-> p.tasks[i].out]
      p1 == [p EXCEPT !.api_succeeded = Aggregate(p.api_succeeded, p.batch, results)]
  IN ProbeLoop(p1, registry, closed)

ProbeResponses == {Status(404), Ok(<<>>, BodyNamed("png"))}

\* ----------------------------------------------------------------- actions
Init ==
  /\ session_closed = FALSE
  /\ api_key_dict \in KeyTables
  /\ call = IdleCall
  /\ log = <<>>
  /\ apis = <<>>
  /\ probe = IdleProbe
  /\ rounds = <<>>

\* request(urls, params, test_mode) is called
RequestCall ==
  /\ call.pc = "idle"
  /\ \E urls \in UrlLists, params \in ParamChoices, test_mode \in BOOLEAN :
       LET c == [IdleCall EXCEPT !.op = "request", !.stage = 1, !.urls = urls,
                                 !.params = params, !.test_mode = test_mode,
                                 !.given = params, !.closed_at_call = session_closed]
           n == RunRequest(c, <<>>, 1, NoExc, session_closed)
       IN call' = n.call /\ log' = n.log
  /\ UNCHANGED <<session_closed, api_key_dict, probeVars>>

\* get_data(urls, params, api_type, target) is called
GetDataCall ==
  /\ call.pc = "idle"
  /\ \E urls \in UrlLists, params \in ParamChoices,
        api_type \in ApiTypes, target \in Targets :
       LET c == [IdleCall EXCEPT !.op = "get_data", !.stage = 1, !.urls = urls,
                                 !.params = params, !.test_mode = FALSE,
                                 !.api_type = api_type, !.target = target,
                                 !.given = params, !.closed_at_call = session_closed]
           n == RunRequest(c, <<>>, 1, NoExc, session_closed)
       IN call' = n.call /\ log' = n.log
  /\ UNCHANGED <<session_closed, api_key_dict, probeVars>>

\* the GET in flight ends: connection error, status, or a 2xx response
Response ==
  /\ call.pc = "get"
  /\ \E resp \in Responses :
       LET n == AfterAttempt(call, log, resp, session_closed)
       IN call' = n.call /\ log' = n.log
  /\ UNCHANGED <<session_closed, api_key_dict, probeVars>>

\* the caller has its result or its exception; the manager is free again
Return ==
  /\ call.pc = "done"
  /\ call' = IdleCall
  /\ log' = <<>>
  /\ UNCHANGED <<session_closed, api_key_dict, probeVars>>

\* lines 205-207
terminate ==
  /\ ~session_closed
  /\ session_closed' = TRUE
  /\ UNCHANGED <<api_key_dict, fetchVars, probeVars>>

Next == RequestCall \/ GetDataCall \/ Response \/ Return \/ terminate

Spec == Init /\ [][Next]_vars

\* ------------------------------------------------------- the prober's steps
InitProbe ==
  /\ session_closed = FALSE
  /\ api_key_dict \in KeyTables
  /\ call = IdleCall
  /\ log = <<>>
  /\ apis \in { registry \in Registries : RegistrySize(registry) <= MaxEntries }
  /\ probe = IdleProbe
  /\ rounds = <<>>

\* batch_test_apis() is called: lines 160-191
BatchTestCall ==
  /\ probe.pc = "idle"
  /\ LET f == Flatten(apis)
         p == [IdleProbe EXCEPT
                 !.site_order = f.site_order,
                 !.site_to_entries = f.site_to_entries,
                 !.api_succeeded = [name \in {apis[i].name : i \in DOMAIN apis} |-> FALSE],
                 !.closed_at_call = session_closed]
         n == ProbeLoop(p, apis, session_closed)
     IN probe' = n.probe /\ apis' = n.apis
  /\ rounds' = <<>>
  /\ UNCHANGED <<session_closed, api_key_dict, fetchVars>>

\* the GET of one task of the batch ends, in any order among the tasks
TaskEnd ==
  /\ probe.pc = "gather"
  /\ \E i \in DOMAIN probe.tasks, resp \in ProbeResponses :
       /\ probe.tasks[i].out = Pending
       /\ LET out == TaskOutcome(probe.tasks[i], resp)
          IN probe' = [probe EXCEPT
                         !.tasks[i].out = out,
                         !.completed = Append(@, [eid |-> probe.batch[i].eid,
                                                  ok |-> out.kind # "raise"])]
  /\ UNCHANGED <<session_closed, api_key_dict, fetchVars, apis, rounds>>

\* lines 191-198, then the loop again: gather hands back every task's result
Gathered ==
  /\ probe.pc = "gather"
  /\ \A i \in DOMAIN probe.tasks : probe.tasks[i].out # Pending
  /\ LET results == [i \in DOMAIN probe.tasks |-> probe.tasks[i].out]
         n == AfterGather(probe, apis, session_closed)
     IN /\ rounds' = Append(rounds, [batch |-> probe.batch, results |-> results])
        /\ probe' = n.probe
        /\ apis' = n.apis
  /\ UNCHANGED <<session_closed, api_key_dict, fetchVars>>

\* the caller has the two lists; the manager is free again
ReturnProbe ==
  /\ probe.pc = "done"
  /\ probe' = IdleProbe
  /\ rounds' = <<>>
  /\ UNCHANGED <<session_closed, api_key_dict, fetchVars, apis>>

NextProbe == BatchTestCall \/ TaskEnd \/ Gathered \/ ReturnProbe \/ terminate

SpecProbe == InitProbe /\ [][NextProbe]_vars

\* ------------------------------------------- the manager, one call at a time
\* a registry whose first api has URLs on two sites and shares one params
\* mapping between them
ManagerRegistry ==
  <<ApiRecord(ProbeNames[1], UrlList(<<U1, U2>>)), ApiRecord(ProbeNames[2], UrlStr(U4))>>

InitManager ==
  /\ session_closed = FALSE
  /\ api_key_dict \in KeyTables
  /\ call = IdleCall
  /\ log = <<>>
  /\ apis = ManagerRegistry
  /\ probe = IdleProbe
  /\ rounds = <<>>

\* request is called while no pass is running
RequestAlone == probe.pc = "idle" /\ RequestCall

\* batch_test_apis is called while no request is running
BatchTestAlone == call.pc = "idle" /\ BatchTestCall

NextManager ==
  \/ RequestAlone
  \/ Response
  \/ Return
  \/ BatchTestAlone
  \/ TaskEnd
  \/ Gathered
  \/ ReturnProbe
  \/ terminate

\* the event loop runs every task that can run: a GET ends (timeout=30 at
\* the latest, line 88) and a gather whose tasks have all ended returns
SpecManager ==
  /\ InitManager
  /\ [][NextManager]_vars
  /\ WF_vars(Response)
  /\ WF_vars(TaskEnd)
  /\ WF_vars(Gathered)

\* ================================================================== claims
RequestDone == call.op = "request" /\ call.pc = "done"
GetDataDone == call.op = "get_data" /\ call.pc = "done"

\* the ended attempts of the request call numbered stage
AttemptsOf(stage) == SelectSeq(log, LAMBDA a : a.stage = stage)

Succeeded(a) == a.out.kind = "return"
Failed(a) == a.out.kind = "raise"

\* C1: a request over a non-empty list in which some attempt succeeds returns
\* the result of the first URL, in list order, whose attempt succeeds; every
\* URL before it was attempted and failed, and the call does not raise.
C1_FirstSuccessWins ==
  (RequestDone /\ \E i \in DOMAIN log : Succeeded(log[i]))
    => LET k == CHOOSE i \in DOMAIN log :
                  Succeeded(log[i]) /\ \A j \in 1..(i - 1) : Failed(log[j])
       IN /\ call.result.kind = "return"
          /\ call.result = log[k].out
          /\ call.result.at = k
          /\ log[k].url = call.urls[k]
          /\ \A j \in 1..(k - 1) : Failed(log[j]) /\ log[j].url = call.urls[j]

C1_Witness ==
  /\ RequestDone
  /\ ~call.test_mode
  /\ Len(call.urls) = 2
  /\ Len(log) = 2
  /\ Failed(log[1])
  /\ call.result.kind = "return"
  /\ call.result.at = 2

\* C2: a request over a non-empty list whose attempts all fail raises exactly
\* the error of the last URL of the list, after every URL has been attempted.
C2_LastErrorRaised ==
  (RequestDone /\ call.urls # <<>> /\ \A i \in DOMAIN log : Failed(log[i]))
    => /\ Len(log) = Len(call.urls)
       /\ \A i \in DOMAIN log : log[i].at = i /\ log[i].url = call.urls[i]
       /\ call.result.kind = "raise"
       /\ call.result = log[Len(log)].out
       /\ call.result.at = Len(call.urls)

C2_Witness ==
  /\ RequestDone
  /\ Len(call.urls) = 2
  /\ Len(log) = 2
  /\ Failed(log[1])
  /\ Failed(log[2])
  /\ log[1].out.type # log[2].out.type
  /\ call.result = log[2].out

\* C3: within one request call the attempts follow the list order, one at a
\* time: the k-th attempt is on the k-th URL, every attempt before the latest
\* has failed, at most one GET is in flight, and the GET in flight is the one
\* right after the attempts that have ended.
C3_SequentialAttempts ==
  LET mine == AttemptsOf(call.stage)
  IN /\ Len(mine) <= Len(Urls(call))
     /\ \A i \in DOMAIN mine : mine[i].at = i /\ mine[i].url = Urls(call)[i]
     /\ \A i \in 1..(Len(mine) - 1) : Failed(mine[i])
     /\ Cardinality(call.inflight) <= 1
     /\ call.pc = "get" =>
          /\ call.inflight = {Len(mine) + 1}
          /\ call.inflight_url = Urls(call)[Len(mine) + 1]
          /\ \A i \in DOMAIN mine : Failed(mine[i])
     /\ call.pc # "get" => call.inflight = {}

C3_Witness ==
  /\ call.op = "request"
  /\ call.pc = "get"
  /\ call.inflight = {2}
  /\ Len(log) = 1
  /\ Failed(log[1])
  /\ call.urls[1] # call.urls[2]

\* C4: once get_data has started its second-stage request on a text result
\* (api_type not "text", URLs extracted from the text), every outcome of
\* that request other than a byte result, a failure on all extracted URLs
\* included, ends get_data with the download-failed error carrying the
\* extracted URLs; a byte result becomes the data.
C4_DownloadFailedOnAnyNonBinary ==
  (GetDataDone /\ call.stage = 2 /\ call.data.variant = "TEXT" /\ call.api_type # "text")
    => IF call.downloaded.kind = "return" /\ IsBytes(call.downloaded.val)
       THEN call.result.kind = "return" /\ call.result.byte = call.downloaded.val
       ELSE call.result = DownloadFailed(call.new_urls)

\* C5 as claimed: whenever get_data returns, exactly one of text and byte is
\* present.
C5_ExactlyOnePresent ==
  (GetDataDone /\ call.result.kind = "return")
    => (call.result.text # None) # (call.result.byte # None)

\* the value get_data ends with, before it is split into (text, byte)
FinalIsNeither ==
  LET data == IF call.stage = 2 THEN call.downloaded.val ELSE call.data.val
  IN \/ data.t \in {"None", "int"}
     \/ IsDict(data) /\ call.target = ""
     \/ IsDict(data) /\ call.target # "" /\ get_nested_value(data, call.target).t \in {"None", "int"}

\* C5 as amended: whenever get_data returns, at most one of text and byte is
\* present, text a string and byte a byte sequence; both are absent exactly
\* when the value it ends with is neither a string nor bytes.
C5_AtMostOnePresent ==
  (GetDataDone /\ call.result.kind = "return")
    => /\ call.result.text = None \/ call.result.byte = None
       /\ call.result.text # None => IsStr(call.result.text)
       /\ call.result.byte # None => IsBytes(call.result.byte)
       /\ (call.result.text = None /\ call.result.byte = None) <=> FinalIsNeither

C5_Witness ==
  /\ GetDataDone
  /\ call.result.kind = "return"
  /\ call.data.kind = "return"
  /\ call.data.variant = "JSON"
  /\ IsDict(call.data.val)
  /\ call.target = ""
  /\ call.result.text = None
  /\ call.result.byte = None

\* the base URL with its leading scheme swapped, as the claim words it
FlippedScheme(base_url) ==
  IF Head(base_url) = "http://" THEN <<"https://">> \o Tail(base_url)
  ELSE IF Head(base_url) = "https://" THEN <<"http://">> \o Tail(base_url)
  ELSE base_url

\* C6: the key looked up for an attempted URL is the one stored under its base
\* URL; failing that, the one stored under the base URL with http:// and
\* https:// swapped; failing that, or without such a scheme, none.
C6_CredentialLookup ==
  \A i \in DOMAIN log :
    LET base_url == SubSeq(log[i].url, 1, 2)
        twin == FlippedScheme(base_url)
    IN log[i].api_key =
         IF base_url \in DOMAIN api_key_dict THEN api_key_dict[base_url]
         ELSE IF twin \in DOMAIN api_key_dict THEN api_key_dict[twin]
         ELSE NoKey

C6_Witness ==
  \E i \in DOMAIN log :
    /\ SubSeq(log[i].url, 1, 2) \notin DOMAIN api_key_dict
    /\ Head(log[i].url) = "https://"
    /\ log[i].api_key = "K3"

\* C7: the parameters sent with an attempt are the caller's, plus ckey set to
\* the site's key exactly when a key is found and the caller gave no ckey; a
\* caller's ckey is never overwritten.
C7_CredentialInjection ==
  \A i \in DOMAIN log :
    LET a == log[i]
        given == IF a.params.none THEN <<>> ELSE a.params.d
        sent == a.request_params
    IN IF a.api_key # NoKey /\ "ckey" \notin DOMAIN given
       THEN /\ DOMAIN sent = DOMAIN given \cup {"ckey"}
            /\ sent["ckey"] = a.api_key
            /\ \A k \in DOMAIN given : sent[k] = given[k]
       ELSE /\ DOMAIN sent = DOMAIN given
            /\ \A k \in DOMAIN given : sent[k] = given[k]

C7_Witness ==
  \E i \in DOMAIN log :
    /\ log[i].api_key # NoKey
    /\ ~log[i].params.none
    /\ "ckey" \in DOMAIN log[i].params.d
    /\ log[i].request_params["ckey"] = "mine"

\* the spellings of a media-type fragment that differ only in case
Spellings(sub) ==
  IF sub = "application/json"
  THEN {"application/json", "APPLICATION/JSON", "Application/Json"}
  ELSE {"text/", "TEXT/", "Text/"}

Declares(headers, sub) ==
  /\ "Content-Type" \in DOMAIN headers
  /\ \E i \in DOMAIN headers["Content-Type"] :
       headers["Content-Type"][i] \in Spellings(sub)

\* C8: an attempt that returns a body returns the variant its content-type
\* header declares, whatever the case: JSON for application/json, else text
\* for text/, else bytes (also without the header).
C8_VariantByContentType ==
  \A i \in DOMAIN log :
    (Succeeded(log[i]) /\ log[i].out.variant # "ABSENT")
      => LET h == log[i].headers
             out == log[i].out
         IN IF Declares(h, "application/json") THEN out.variant = "JSON"
            ELSE IF Declares(h, "text/")
            THEN out.variant = "TEXT" /\ IsStr(out.val)
            ELSE out.variant = "BINARY" /\ IsBytes(out.val)

C8_Witness ==
  \E i \in DOMAIN log :
    /\ Succeeded(log[i])
    /\ log[i].headers = ("Content-Type" :> <<"APPLICATION/JSON", "; charset=utf-8">>)
    /\ log[i].out.variant = "JSON"

\* ----------------------------------------------------- claims on the prober
\* the ProbeEntries of the registry: (api name, position among its URLs)
EntryIds ==
  UNION { { <<apis[i].name, k>> :
              k \in 1..(IF apis[i].url.isstr THEN 1 ELSE Len(apis[i].url.l)) } :
          i \in DOMAIN apis }

ApiIndex(name) == CHOOSE i \in DOMAIN apis : apis[i].name = name

UrlOfId(id) ==
  LET url == apis[ApiIndex(id[1])].url
  IN IF url.isstr THEN url.s ELSE url.l[id[2]]

SiteOfId(id) == SubSeq(UrlOfId(id), 1, 2)

\* flattening order: by ApiRecord, then by position in its URL list
Before(a, b) ==
  \/ ApiIndex(a[1]) < ApiIndex(b[1])
  \/ a[1] = b[1] /\ a[2] < b[2]

\* an entry is the r-th of its site
RankInSite(id) ==
  1 + Cardinality({ j \in EntryIds : SiteOfId(j) = SiteOfId(id) /\ Before(j, id) })

\* the batches built so far: the gathered ones, then the one being gathered
Batches ==
  [i \in DOMAIN rounds |-> rounds[i].batch]
    \o (IF probe.pc = "gather" THEN <<probe.batch>> ELSE <<>>)

BatchIds(batch) == { batch[i].eid : i \in DOMAIN batch }

Batched == UNION { BatchIds(Batches[r]) : r \in DOMAIN Batches }

Remaining ==
  UNION { BatchIds(probe.site_to_entries[site]) : site \in DOMAIN probe.site_to_entries }

ProbeRunning == probe.pc \in {"gather", "done"}

\* C9: in one pass every ProbeEntry is tested exactly once: an entry leaves
\* its site group when it is put in a batch, is in no second batch and at no
\* second place of its batch, and the pass ends only with every group empty.
C9_EachEntryTestedOnce ==
  ProbeRunning =>
    LET ids == EntryIds
        batches == Batches
        batched == Batched
        remaining == Remaining
    IN /\ batched \cup remaining = ids
       /\ batched \cap remaining = {}
       /\ \A r, q \in DOMAIN batches :
            r # q => BatchIds(batches[r]) \cap BatchIds(batches[q]) = {}
       /\ \A r \in DOMAIN batches :
            /\ Cardinality(BatchIds(batches[r])) = Len(batches[r])
            /\ \A i \in DOMAIN batches[r] : batches[r][i].url = UrlOfId(batches[r][i].eid)
       /\ \A r \in DOMAIN rounds : Len(rounds[r].results) = Len(rounds[r].batch)
       /\ probe.pc = "done" => remaining = {} /\ batched = ids

C9_Witness ==
  /\ probe.pc = "done"
  /\ Cardinality(EntryIds) = 3
  /\ Len(rounds) = 2
  /\ \E i \in DOMAIN rounds[1].results : rounds[1].results[i].kind = "raise"

MaxOf(S) == IF S = {} THEN 0 ELSE CHOOSE n \in S : \A m \in S : m <= n

\* C10: the batch of round r is exactly the r-th entry of every site that
\* owns at least r entries, and the pass ends after as many rounds as the
\* largest site has entries.
C10_RoundRobinBySite ==
  ProbeRunning =>
    LET ids == EntryIds
        site == [id \in ids |-> SiteOfId(id)]
        ranked == { <<id, 1 + Cardinality({ j \in ids : site[j] = site[id] /\ Before(j, id) })>> :
                      id \in ids }
        batches == Batches
    IN /\ \A r \in DOMAIN batches :
            BatchIds(batches[r]) = { p[1] : p \in { q \in ranked : q[2] = r } }
       /\ probe.pc = "done" =>
            Len(rounds) = MaxOf({ p[2] : p \in ranked })

C10_Witness ==
  /\ probe.pc = "done"
  /\ Len(rounds) = 2
  /\ Len(rounds[1].batch) = 2
  /\ Len(rounds[2].batch) = 1
  /\ \E id \in EntryIds :
       /\ SiteOfId(id) = <<"https://", "b.com">>
       /\ id \in BatchIds(rounds[1].batch)
       /\ \A j \in EntryIds \ {id} : Before(j, id)

\* the results gathered so far, one record per tested entry
Tested ==
  UNION { { [name |-> rounds[r].batch[i].api_name, round |-> r,
             ok |-> rounds[r].results[i].kind # "raise"] :
              i \in DOMAIN rounds[r].batch } :
          r \in DOMAIN rounds }

\* C11: within one pass the outcome of every api starts false, and once it
\* is true no later result, a failure of another URL of the same api
\* included, sets it back to false.
C11_OutcomeMonotonic ==
  /\ [](probe.pc = "gather" /\ rounds = <<>>
          => \A name \in DOMAIN probe.api_succeeded : ~probe.api_succeeded[name])
  /\ [][(probe.pc = "gather" /\ probe'.pc \in {"gather", "done"})
          => \A name \in DOMAIN probe.api_succeeded :
               probe.api_succeeded[name] => probe'.api_succeeded[name]]_vars

C11_Witness ==
  /\ ProbeRunning
  /\ \E s \in Tested, f \in Tested :
       /\ s.name = f.name
       /\ s.ok /\ ~f.ok
       /\ s.round < f.round
       /\ probe.api_succeeded[s.name]

ApiNames == { apis[i].name : i \in DOMAIN apis }
Range(q) == { q[i] : i \in DOMAIN q }

\* C12: the two returned collections are disjoint and together hold every
\* api name of the registry exactly once; a name is in the reachable one
\* exactly when the fetch of at least one of its URLs ended without an error
\* during the pass, so an api without any URL is unreachable.
C12_PartitionByAnySuccess ==
  probe.pc = "done" =>
    LET tested == Tested
        abled == probe.result.abled
        disabled == probe.result.disabled
    IN /\ probe.result.kind = "return"
       /\ Range(abled) \cap Range(disabled) = {}
       /\ Range(abled) \cup Range(disabled) = ApiNames
       /\ Len(abled) + Len(disabled) = Cardinality(ApiNames)
       /\ \A name \in ApiNames :
            name \in Range(abled) <=> \E t \in tested : t.name = name /\ t.ok

C12_Witness ==
  /\ probe.pc = "done"
  /\ probe.result.abled = <<"y">>
  /\ probe.result.disabled = <<"x">>
  /\ UrlsOfApi(apis[1]) = <<>>
  /\ \E s \in Tested, f \in Tested : s.name = "y" /\ f.name = "y" /\ s.ok /\ ~f.ok

\* C13: no failure of a connectivity-only fetch leaves batch_test_apis: a
\* failed entry is kept as a result that marks nothing, the other entries of
\* its batch have their results, the rounds after it are still run, and the
\* pass ends by returning the two collections.
C13_FailuresContained ==
  ProbeRunning =>
    LET batches == Batches
    IN /\ probe.result.kind # "raise"
       /\ probe.pc = "done" => probe.result.kind = "return"
       /\ \A r \in DOMAIN rounds :
            (\E i \in DOMAIN rounds[r].results : rounds[r].results[i].kind = "raise")
              => /\ DOMAIN rounds[r].results = DOMAIN rounds[r].batch
                 /\ \A i \in DOMAIN rounds[r].results : rounds[r].results[i] # Pending
                 /\ r = Len(batches) => probe.pc = "done" /\ Remaining = {}
       /\ \A name \in DOMAIN probe.api_succeeded :
            (\A t \in Tested : t.name = name => ~t.ok) => ~probe.api_succeeded[name]

C13_Witness ==
  /\ probe.pc = "done"
  /\ probe.result.kind = "return"
  /\ probe.result.abled = <<>>
  /\ Len(rounds) = 2
  /\ Len(rounds[1].batch) = 2
  /\ \A t \in Tested : ~t.ok
  /\ ~probe.closed_at_call

\* the fetches of the pass that have started and not ended
InFlight == { i \in DOMAIN probe.tasks : probe.tasks[i].out = Pending }

\* C16: within a pass no two fetches of one site are in flight together:
\* a batch holds at most one entry per site, the fetches in flight are those
\* of the current batch only, and a round starts only when every fetch of
\* the round before it has ended.
C16_OneFetchPerSite ==
  ProbeRunning =>
    LET batches == Batches
    IN /\ \A r \in DOMAIN batches :
            \A i, j \in DOMAIN batches[r] :
              i # j => SiteOfId(batches[r][i].eid) # SiteOfId(batches[r][j].eid)
       /\ DOMAIN probe.tasks = DOMAIN probe.batch
       /\ \A i, j \in InFlight :
            i # j => SiteOfId(probe.batch[i].eid) # SiteOfId(probe.batch[j].eid)
       /\ \A r \in DOMAIN rounds :
            \A i \in DOMAIN rounds[r].results : rounds[r].results[i] # Pending
       /\ probe.pc = "done" => InFlight = {}

C16_Witness ==
  /\ probe.pc = "gather"
  /\ Len(rounds) = 1
  /\ Len(rounds[1].batch) = 2
  /\ InFlight = {1}
  /\ \E i \in DOMAIN rounds[1].batch :
       SiteOfId(rounds[1].batch[i].eid) = SiteOfId(probe.batch[1].eid)

\* the outcomes after taking the ended fetches one by one in the order of q
RECURSIVE ProcessInOrder(_, _)
ProcessInOrder(q, outcome) ==
  IF q = <<>> THEN outcome
  ELSE ProcessInOrder(Tail(q),
                      IF Head(q).ok THEN [outcome EXCEPT ![Head(q).eid[1]] = TRUE]
                      ELSE outcome)

Reverse(q) == [i \in DOMAIN q |-> q[Len(q) + 1 - i]]

\* C17: the outcome of a pass is a function of which entries succeeded
\* alone: whatever the order in which the fetches of a batch ended, the pass
\* returns what taking the results in that order, or in the opposite order,
\* gives.
C17_OrderIndependent ==
  probe.pc = "done" =>
    LET none == [name \in ApiNames |-> FALSE]
        forward == ProcessInOrder(probe.completed, none)
        backward == ProcessInOrder(Reverse(probe.completed), none)
        won == { probe.completed[k].eid[1] :
                   k \in { h \in DOMAIN probe.completed : probe.completed[h].ok } }
    IN /\ forward = backward
       /\ probe.api_succeeded = forward
       /\ Range(probe.result.abled) = won
       /\ Range(probe.result.disabled) = ApiNames \ won
       /\ { probe.completed[k].eid : k \in DOMAIN probe.completed } = EntryIds

C17_Witness ==
  /\ probe.pc = "done"
  /\ Len(rounds) >= 1
  /\ Len(rounds[1].batch) = 2
  /\ probe.completed[1].eid = rounds[1].batch[2].eid
  /\ probe.completed[1].eid[1] = probe.completed[2].eid[1]
  /\ probe.completed[1].ok
  /\ ~probe.completed[2].ok

TestDone == RequestDone /\ call.test_mode

HasUrl(v) == IsStr(v) /\ \E i \in DOMAIN v.s : v.s[i].k = "url"

FirstReturned == call.data.kind = "return"

\* get_data ran one request only and handed its result to the later steps
OneFetchPassedOn ==
  /\ \A i \in DOMAIN log : log[i].stage = 1
  /\ call.downloaded = NoResult
  /\ FirstReturned =>
       /\ call.result = Refine(call.data.val, call.target)
       /\ IsBytes(call.data.val) => call.result.byte = call.data.val

\* C18 as stated: get_data issues the second fetch exactly when the first
\* result is of the Text variant, api_type is not "text" and a URL is found
\* in it.
C18_SecondFetchIffText ==
  GetDataDone =>
    (call.stage = 2 <=> /\ FirstReturned
                        /\ call.data.variant = "TEXT"
                        /\ call.api_type # "text"
                        /\ HasUrl(call.data.val))

\* C18: get_data issues the second fetch exactly when the first result is
\* a string, of the Text variant or a JSON value that is a string, api_type
\* is not "text" and a URL is found in it; otherwise it runs one request
\* and passes its result on unchanged. A string taken out of a JSON mapping
\* by the target path is never followed.
C18_SecondFetchIffString ==
  GetDataDone =>
    /\ call.stage \in {1, 2}
    /\ call.stage = 2 <=> /\ FirstReturned
                           /\ IsStr(call.data.val)
                           /\ call.api_type # "text"
                           /\ HasUrl(call.data.val)
    /\ call.stage = 2 => /\ call.new_urls # <<>>
                          /\ \E i \in DOMAIN log : log[i].stage = 2
    /\ call.stage = 1 => OneFetchPassedOn
    /\ (FirstReturned /\ IsDict(call.data.val)) => call.stage = 1

C18_Witness ==
  /\ GetDataDone
  /\ call.stage = 2
  /\ call.data.variant = "JSON"
  /\ IsStr(call.data.val)
  /\ call.result.kind = "return"

\* C19: a request over an empty URL list makes no HTTP attempt and returns
\* Absent without raising, whether the session is open or closed; get_data
\* over an empty list returns (absent, absent) after that one request.
C19_EmptyUrlsAbsent ==
  (call.op \in {"request", "get_data"} /\ call.urls = <<>>)
    => /\ call.pc = "done"
       /\ log = <<>>
       /\ call.inflight = {}
       /\ call.result.kind = "return"
       /\ call.op = "request" => call.result.val = None /\ call.result.variant = "ABSENT"
       /\ call.op = "get_data" =>
            /\ call.stage = 1
            /\ call.data.val = None
            /\ call.result.text = None
            /\ call.result.byte = None

C19_Witness ==
  /\ GetDataDone
  /\ call.urls = <<>>
  /\ call.api_type = "image"
  /\ call.target = "a"
  /\ call.result = [kind |-> "return", text |-> None, byte |-> None]

\* a request over a non-empty list made on the closed session has ended by
\* raising the closed-session error of its last URL, no GET ever awaited
ClosedRequestRaised ==
  (call.op = "request" /\ call.closed_at_call /\ call.urls # <<>>)
    => /\ call.pc = "done"
       /\ call.inflight = {}
       /\ Len(log) = Len(call.urls)
       /\ \A i \in DOMAIN log : log[i].status = 0 /\ log[i].out = SessionClosed(i)
       /\ call.result = SessionClosed(Len(call.urls))

\* a pass started on the closed session marks no api and lists every api as
\* unreachable
ClosedPassAllUnreachable ==
  (ProbeRunning /\ probe.closed_at_call)
    => /\ \A t \in Tested : ~t.ok
       /\ \A i \in DOMAIN probe.tasks :
            probe.tasks[i].out # Pending => probe.tasks[i].out = SessionClosed(1)
       /\ \A name \in DOMAIN probe.api_succeeded : ~probe.api_succeeded[name]
       /\ probe.pc = "done" =>
            /\ probe.result.kind = "return"
            /\ probe.result.abled = <<>>
            /\ Range(probe.result.disabled) = ApiNames

\* C14: once terminate() has completed, a request over a non-empty URL list
\* ends by raising the closed-session error of the last URL, never returns
\* a result and never waits on a GET; a batch_test_apis pass started after
\* terminate() ends, with every api unreachable.
C14_ClosedSessionFails ==
  /\ [](ClosedRequestRaised /\ ClosedPassAllUnreachable)
  /\ (probe.pc = "gather" /\ probe.closed_at_call) ~> (probe.pc = "done")

C14_Witness ==
  /\ session_closed
  /\ probe.pc = "done"
  /\ probe.closed_at_call
  /\ Len(rounds) = 2
  /\ probe.result.disabled = <<"x", "y">>

\* what is sent to url holds the caller's entries as given, and beyond them
\* at most a ckey that is the credential of url's own site, found under
\* the base URL of url or under its other scheme
SentOnlyOwn(url, sent, given) ==
  LET base == SubSeq(url, 1, 2)
      own == { api_key_dict[b] : b \in {base, FlippedScheme(base)} \cap DOMAIN api_key_dict }
      g == IF given.none THEN <<>> ELSE given.d
  IN /\ \A k \in DOMAIN g : k \in DOMAIN sent /\ sent[k] = g[k]
     /\ DOMAIN sent \subseteq DOMAIN g \cup {"ckey"}
     /\ ("ckey" \in DOMAIN sent /\ "ckey" \notin DOMAIN g) => sent["ckey"] \in own

\* the caller's mapping is as it was given, and every attempt of the call,
\* ended or in flight, sent only its own site's credential
RequestParamsRebuilt ==
  /\ call.params = call.given
  /\ \A i \in DOMAIN log :
       log[i].stage = 1 => SentOnlyOwn(log[i].url, log[i].request_params, call.given)
  /\ (call.pc = "get" /\ call.stage = 1)
       => SentOnlyOwn(call.inflight_url, call.request_params, call.given)

\* every fetch of the current batch sent the params of its api and only its
\* own site's credential
TaskParamsRebuilt ==
  \A i \in DOMAIN probe.tasks :
    /\ SentOnlyOwn(probe.batch[i].url, probe.tasks[i].request_params,
                   RegistryParams(probe.batch[i].api_name))
    /\ apis[ApiIndex(probe.batch[i].api_name)].params
         = RegistryParams(probe.batch[i].api_name)

\* C20: request builds the params it sends afresh from the caller's params
\* for every URL attempt and never changes the caller's params mapping, the
\* registry or the credential table; a credential injected for one URL is
\* not in what is sent to a later URL of the call nor to another entry of
\* the same api, and a site's credential goes only to URLs of that site.
C20_ParamsNeverShared ==
  /\ [][api_key_dict' = api_key_dict /\ apis' = apis]_vars
  /\ [](RequestParamsRebuilt /\ TaskParamsRebuilt)

C20_Witness ==
  /\ probe.pc = "gather"
  /\ \E i, j \in DOMAIN probe.tasks :
       /\ i < j
       /\ probe.batch[i].api_name = probe.batch[j].api_name
       /\ "ckey" \in DOMAIN probe.tasks[i].request_params
       /\ "ckey" \notin DOMAIN probe.tasks[j].request_params
       /\ "q" \in DOMAIN probe.tasks[j].request_params
====
